---- MODULE Spec2Model ----
(***************************************************************************)
(* The reducer of the editor (Editor::new, Editor::update, the Save gate   *)
(* of Editor::view) together with the asynchronous tasks it issues         *)
(* (load_file, pick_file, save_file) and the runtime that delivers their   *)
(* results back to update as FileOpened / FileSaved messages.              *)
(***************************************************************************)
EXTENDS Naturals, Sequences, FiniteSets, Bags, TLC

VARIABLES
    editor,   \* struct Editor: path, content, error, theme, is_dirty
    tasks,    \* bag of the futures handed to Command::perform, not yet delivered
    last,     \* history: the message update processed last
    synced    \* history: text of the last successful load / written by the last successful save

vars == <<editor, tasks, last, synced>>

\* ---------------------------------------------------------------- bounds
MaxLen == 1        \* longest document text
MaxIssued == 1     \* most futures issued by Open and Save in flight at once

\* ---------------------------------------------------------------- values
None == <<>>
Some(x) == <<x>>

Chars == {"a"}

default_file == "main.rs"
Paths == {default_file, "picked"}

ErrorKinds == {"NotFound"}
DialogClosed == [tag |-> "DialogClosed", kind |-> "-"]
IOFailed(kind) == [tag |-> "IOFailed", kind |-> kind]
Errors == {DialogClosed} \cup {IOFailed(k) : k \in ErrorKinds}

SolarizedDark == "SolarizedDark"
InspiredGitHub == "InspiredGitHub"
is_dark(theme) == theme = SolarizedDark

\* the contents a read of a file may deliver
FileTexts == {<<>>, <<"a">>}

\* ---------------------------------------------------------------- text_editor::Content
\* A Content is the text and the caret, an offset into it. The texts of this model
\* hold no line break, so the buffer is its single line.
ContentNew == [text |-> <<>>, cursor |-> 0]
ContentWithText(s) == [text |-> s, cursor |-> 0]
ContentText(c) == c.text

Left(c) == SubSeq(c.text, 1, c.cursor)
Right(c) == SubSeq(c.text, c.cursor + 1, Len(c.text))

Insert(c, ch) == [text |-> Left(c) \o <<ch>> \o Right(c), cursor |-> c.cursor + 1]

Backspace(c) ==
    IF c.cursor > 0
    THEN [text |-> SubSeq(c.text, 1, c.cursor - 1) \o Right(c), cursor |-> c.cursor - 1]
    ELSE c

Delete(c) ==
    IF c.cursor < Len(c.text)
    THEN [c EXCEPT !.text = Left(c) \o SubSeq(c.text, c.cursor + 2, Len(c.text))]
    ELSE c

MoveLeft(c) == IF c.cursor > 0 THEN [c EXCEPT !.cursor = c.cursor - 1] ELSE c
MoveRight(c) == IF c.cursor < Len(c.text) THEN [c EXCEPT !.cursor = c.cursor + 1] ELSE c

\* text_editor::Action: Edit(..) changes the text, Move(..) only the caret.
EditActions ==
    {[kind |-> "Edit", op |-> "Insert", ch |-> ch] : ch \in Chars}
    \cup {[kind |-> "Edit", op |-> o, ch |-> "-"] : o \in {"Backspace", "Delete"}}
MoveActions == {[kind |-> "Move", op |-> o, ch |-> "-"] : o \in {"Left", "Right"}}
Actions == EditActions \cup MoveActions

is_edit(action) == action.kind = "Edit"

perform(c, action) ==
    CASE action.op = "Insert" -> Insert(c, action.ch)
      [] action.op = "Backspace" -> Backspace(c)
      [] action.op = "Delete" -> Delete(c)
      [] action.op = "Left" -> MoveLeft(c)
      [] action.op = "Right" -> MoveRight(c)

\* An action fits when the text it produces stays within the bound of the model.
Fits(c, action) == Len(ContentText(perform(c, action))) <= MaxLen

\* ---------------------------------------------------------------- asynchronous tasks
\* A future handed to Command::perform. pc is the await point it is suspended at
\* (the dialog, the read or the write); path and text are its locals.
\* stale is history: the document was replaced after this save was issued.
\* watched is history: the one future singled out to be followed to its result.
Task(fn, pc, path, text) ==
    [fn |-> fn, pc |-> pc, path |-> path, text |-> text, stale |-> FALSE,
     watched |-> FALSE]

load_file(path) == Task("load_file", "read", Some(path), <<>>)
pick_file == Task("pick_file", "dialog", None, <<>>)
\* A variant of save_file that goes to the write at once, prompting for no path.
save_file_WritesFirst(path, text) == Task("save_file", "write", path, text)

save_file(path, text) ==
    Task("save_file", IF path = None THEN "dialog" ELSE "write", path, text)

Pending(pc) == {t \in BagToSet(tasks) : t.pc = pc}
NumIssued == BagCardinality(tasks) - Cardinality({t \in BagToSet(tasks) : t.fn = "load_file"})
Without(t) == tasks (-) SetToBag({t})

\* ---------------------------------------------------------------- Editor
\* A variant of Editor::new that starts the document clean.
EditorNew_Clean ==
    [state |-> [path |-> None, content |-> ContentNew, error |-> None,
                theme |-> SolarizedDark, is_dirty |-> FALSE],
     command |-> Some(load_file(default_file))]

EditorNew ==
    [state |-> [path |-> None, content |-> ContentNew, error |-> None,
                theme |-> SolarizedDark, is_dirty |-> TRUE],
     command |-> Some(load_file(default_file))]

\* A variant of the EditorStateChanged arm that marks the document dirty on any action.
EditorStateChanged_AnyActionDirties(self, action) ==
    [state |-> [self EXCEPT !.is_dirty = TRUE,
                            !.error = None,
                            !.content = perform(self.content, action)],
     command |-> None]

\* A variant of the EditorStateChanged arm that leaves the error slot alone.
EditorStateChanged_KeepsError(self, action) ==
    [state |-> [self EXCEPT !.is_dirty = self.is_dirty \/ is_edit(action),
                            !.content = perform(self.content, action)],
     command |-> None]

\* The arms of Editor::update: the state after the message and the command returned.
EditorStateChanged(self, action) ==
    [state |-> [self EXCEPT !.is_dirty = self.is_dirty \/ is_edit(action),
                            !.error = None,
                            !.content = perform(self.content, action)],
     command |-> None]

\* A variant of the New arm that leaves the dirty flag as it was.
New_KeepsDirty(self) ==
    [state |-> [self EXCEPT !.path = None, !.content = ContentNew],
     command |-> None]

\* A variant of the New arm that keeps the path of the document it replaces.
New_KeepsPath(self) ==
    [state |-> [self EXCEPT !.content = ContentNew, !.is_dirty = TRUE],
     command |-> None]

New(self) ==
    [state |-> [self EXCEPT !.path = None, !.content = ContentNew, !.is_dirty = TRUE],
     command |-> None]

Open(self) == [state |-> self, command |-> Some(pick_file)]

\* A variant of the FileOpened(Ok) arm that keeps the document being edited.
FileOpenedOk_KeepsContent(self, path, content) ==
    [state |-> [self EXCEPT !.path = Some(path), !.is_dirty = FALSE],
     command |-> None]

FileOpenedOk(self, path, content) ==
    [state |-> [self EXCEPT !.path = Some(path),
                            !.content = ContentWithText(content),
                            !.is_dirty = FALSE],
     command |-> None]

\* A variant of the FileOpened(Err) arm that also resets the document.
FileOpenedErr_ResetsDocument(self, error) ==
    [state |-> [self EXCEPT !.error = Some(error), !.content = ContentNew],
     command |-> None]

FileOpenedErr(self, error) ==
    [state |-> [self EXCEPT !.error = Some(error)], command |-> None]

\* A variant of the Save arm that does not pass the path of the document.
Save_ForgetsPath(self) ==
    [state |-> self, command |-> Some(save_file(None, ContentText(self.content)))]

\* A variant of the Save arm that marks the document clean when the save is issued.
Save_MarksClean(self) ==
    [state |-> [self EXCEPT !.is_dirty = FALSE],
     command |-> Some(save_file(self.path, ContentText(self.content)))]

Save(self) ==
    [state |-> self, command |-> Some(save_file(self.path, ContentText(self.content)))]

\* A variant of the FileSaved(Ok) arm that forgets to clear the dirty flag.
FileSavedOk_KeepsDirty(self, path) ==
    [state |-> [self EXCEPT !.path = Some(path)], command |-> None]

FileSavedOk(self, path) ==
    [state |-> [self EXCEPT !.path = Some(path), !.is_dirty = FALSE], command |-> None]

\* A variant of the FileSaved(Err) arm that treats the failed save as done.
FileSavedErr_ClearsDirty(self, error) ==
    [state |-> [self EXCEPT !.error = Some(error), !.is_dirty = FALSE], command |-> None]

FileSavedErr(self, error) ==
    [state |-> [self EXCEPT !.error = Some(error)], command |-> None]

\* A variant of the SwitchTheme arm that never returns to the dark theme.
SwitchTheme_AlwaysLight(self) ==
    [state |-> [self EXCEPT !.theme = InspiredGitHub], command |-> None]

\* A variant of the SwitchTheme arm that resets the dirty flag.
SwitchTheme_ClearsDirty(self) ==
    [state |-> [self EXCEPT !.theme = IF is_dark(self.theme) THEN InspiredGitHub
                                       ELSE SolarizedDark,
                            !.is_dirty = FALSE],
     command |-> None]

SwitchTheme(self) ==
    [state |-> [self EXCEPT !.theme = IF is_dark(self.theme) THEN InspiredGitHub
                                       ELSE SolarizedDark],
     command |-> None]

update(self, message) ==
    CASE message.type = "EditorStateChanged" -> EditorStateChanged(self, message.action)
      [] message.type = "New" -> New(self)
      [] message.type = "Open" -> Open(self)
      [] message.type = "FileOpened" /\ message.err = None ->
            FileOpenedOk(self, message.path[1], message.text)
      [] message.type = "FileOpened" /\ message.err # None ->
            FileOpenedErr(self, message.err[1])
      [] message.type = "Save" -> Save(self)
      [] message.type = "FileSaved" /\ message.err = None ->
            FileSavedOk(self, message.path[1])
      [] message.type = "FileSaved" /\ message.err # None ->
            FileSavedErr(self, message.err[1])
      [] message.type = "SwitchTheme" -> SwitchTheme(self)

\* Editor::view: the Save button carries its message only while the document is dirty.
SaveEnabled(self) == self.is_dirty

\* Editor::view: the text of the status bar, the message of an IOFailed error if the
\* error slot holds one, else the path (empty without a path).
status(self) ==
    IF self.error # None /\ self.error[1].tag = "IOFailed" THEN self.error[1].kind
    ELSE IF self.path # None THEN self.path[1]
    ELSE ""

\* ---------------------------------------------------------------- history
\* The message update processed last: its variant, is_edit() of its action, whether
\* its result is Ok and the error it carries, whether its save had gone stale, and
\* whether it is the first message since Editor::new; watched tells whether it is the
\* result of the future singled out.
Last(type, isEdit, ok, err, stale) ==
    [type |-> type, is_edit |-> isEdit, ok |-> ok, err |-> err, stale |-> stale,
     first |-> last.type = "init", watched |-> FALSE]
UserMessage(type, isEdit) == Last(type, isEdit, FALSE, None, FALSE)
MarkStale(t) == IF t.fn = "save_file" THEN [t EXCEPT !.stale = TRUE] ELSE t

\* ---------------------------------------------------------------- the runtime
Init ==
    /\ editor = EditorNew.state
    /\ tasks = SetToBag({EditorNew.command[1]})
    /\ last = [type |-> "init", is_edit |-> FALSE, ok |-> FALSE, err |-> None,
               stale |-> FALSE, first |-> FALSE, watched |-> FALSE]
    /\ synced = None

\* update(message) for a message of the user interface: the new state, and the
\* command's future, if any, joins the tasks in flight.
Dispatch(message) ==
    LET r == update(editor, message)
    IN /\ editor' = r.state
       /\ tasks' = IF r.command = None
                   THEN (IF message.type = "New" THEN BagOfAll(MarkStale, tasks) ELSE tasks)
                   ELSE tasks (+) SetToBag({r.command[1]})
       /\ UNCHANGED synced

OnEditorStateChanged(action) ==
    /\ Fits(editor.content, action)
    /\ Dispatch([type |-> "EditorStateChanged", action |-> action])
    /\ last' = UserMessage("EditorStateChanged", is_edit(action))

OnNew ==
    /\ Dispatch([type |-> "New"])
    /\ last' = UserMessage("New", FALSE)

OnOpen ==
    /\ NumIssued < MaxIssued
    /\ Dispatch([type |-> "Open"])
    /\ last' = UserMessage("Open", FALSE)

OnSave ==
    /\ SaveEnabled(editor)
    /\ NumIssued < MaxIssued
    /\ Dispatch([type |-> "Save"])
    /\ last' = UserMessage("Save", FALSE)

OnSwitchTheme ==
    /\ Dispatch([type |-> "SwitchTheme"])
    /\ last' = UserMessage("SwitchTheme", FALSE)

\* rfd::AsyncFileDialog resolves with a path: the future goes on to its read or write.
DialogPicked(t, p) ==
    /\ t \in Pending("dialog")
    /\ tasks' = Without(t) (+) SetToBag({[t EXCEPT !.pc = IF t.fn = "pick_file" THEN "read"
                                                          ELSE "write",
                                                   !.path = Some(p)]})
    /\ UNCHANGED <<editor, last, synced>>

\* A future's last await resolves and the runtime hands its output to update as a
\* message. Nothing reads the output between the two, so they are one step.
Deliver(t, message) ==
    LET r == update(editor, message)
        ok == message.err = None
        replaced == ok /\ message.type = "FileOpened"
    IN /\ editor' = r.state
       /\ tasks' = IF replaced THEN BagOfAll(MarkStale, Without(t)) ELSE Without(t)
       /\ synced' = IF ok THEN Some(message.text) ELSE synced
       /\ last' = [Last(message.type, FALSE, ok, message.err, t.stale)
                     EXCEPT !.watched = t.watched]

\* pick_file / save_file: the dialog was closed, ok_or(Error::DialogClosed)? returns.
DialogClosedOpen(t) ==
    /\ t \in Pending("dialog") /\ t.fn = "pick_file"
    /\ Deliver(t, [type |-> "FileOpened", path |-> None, text |-> <<>>,
                   err |-> Some(DialogClosed)])

\* A variant in which a canceled save dialog ends the future without any message.
DialogClosedSave_NoMessage(t) ==
    /\ t \in Pending("dialog") /\ t.fn = "save_file"
    /\ tasks' = Without(t)
    /\ UNCHANGED <<editor, last, synced>>

DialogClosedSave(t) ==
    /\ t \in Pending("dialog") /\ t.fn = "save_file"
    /\ Deliver(t, [type |-> "FileSaved", path |-> None, text |-> t.text,
                   err |-> Some(DialogClosed)])

\* load_file: tokio::fs::read_to_string resolves.
ReadOk(t, c) ==
    /\ t \in Pending("read")
    /\ Deliver(t, [type |-> "FileOpened", path |-> t.path, text |-> c, err |-> None])

ReadFailed(t, k) ==
    /\ t \in Pending("read")
    /\ Deliver(t, [type |-> "FileOpened", path |-> None, text |-> <<>>,
                   err |-> Some(IOFailed(k))])

\* save_file: tokio::fs::write resolves.
WriteOk(t) ==
    /\ t \in Pending("write")
    /\ Deliver(t, [type |-> "FileSaved", path |-> t.path, text |-> t.text, err |-> None])

WriteFailed(t, k) ==
    /\ t \in Pending("write")
    /\ Deliver(t, [type |-> "FileSaved", path |-> None, text |-> t.text,
                   err |-> Some(IOFailed(k))])

Next ==
    \/ \E action \in Actions : OnEditorStateChanged(action)
    \/ OnNew
    \/ OnOpen
    \/ OnSave
    \/ OnSwitchTheme
    \/ \E t \in BagToSet(tasks), p \in Paths : DialogPicked(t, p)
    \/ \E t \in BagToSet(tasks) : DialogClosedOpen(t)
    \/ \E t \in BagToSet(tasks) : DialogClosedSave(t)
    \/ \E t \in BagToSet(tasks), c \in FileTexts : ReadOk(t, c)
    \/ \E t \in BagToSet(tasks), k \in ErrorKinds : ReadFailed(t, k)
    \/ \E t \in BagToSet(tasks) : WriteOk(t)
    \/ \E t \in BagToSet(tasks), k \in ErrorKinds : WriteFailed(t, k)

Spec == Init /\ [][Next]_vars

\* ---------------------------------------------------------------- one future followed
Watched == {t \in BagToSet(tasks) : t.watched}

\* History only: single out a future in flight, while none is singled out.
Watch(t) ==
    /\ Watched = {}
    /\ BagIn(t, tasks)
    /\ tasks' = Without(t) (+) SetToBag({[t EXCEPT !.watched = TRUE]})
    /\ UNCHANGED <<editor, last, synced>>

\* The dialog, read or write the singled-out future waits on completes.
WatchedStep ==
    \E t \in Watched :
        \/ \E p \in Paths : DialogPicked(t, p)
        \/ DialogClosedOpen(t)
        \/ DialogClosedSave(t)
        \/ \E c \in FileTexts : ReadOk(t, c)
        \/ \E k \in ErrorKinds : ReadFailed(t, k)
        \/ WriteOk(t)
        \/ \E k \in ErrorKinds : WriteFailed(t, k)

NextWatching ==
    \/ Next
    \/ \E t \in BagToSet(tasks) : Watch(t)

\* Every dialog interaction and disk operation of the future followed completes.
LiveSpec == Init /\ [][NextWatching]_vars /\ WF_vars(WatchedStep)

\* ---------------------------------------------------------------- steps, by the message processed
NavigationStep == \E action \in MoveActions : OnEditorStateChanged(action)
MutationStep == \E action \in EditActions : OnEditorStateChanged(action)
FileOpenedOkStep == \E t \in BagToSet(tasks), c \in FileTexts : ReadOk(t, c)
FileSavedOkStep == \E t \in BagToSet(tasks) : WriteOk(t)

Text == ContentText(editor.content)
\* path, dirty flag and document are what they were.
DocumentUntouched ==
    /\ editor'.path = editor.path
    /\ editor'.is_dirty = editor.is_dirty
    /\ editor'.content = editor.content

\* ---------------------------------------------------------------- claims
\* C1: an EditorStateChanged event whose action is a navigation (is_edit() false)
\* leaves the dirty flag as it was; so does any sequence of them.
C1_NavigationKeepsDirty ==
    [][NavigationStep => editor'.is_dirty = editor.is_dirty]_vars

\* Reached: a navigation moved the caret of a clean document.
C1_Witness ==
    /\ last.type = "EditorStateChanged" /\ ~last.is_edit
    /\ ~editor.is_dirty
    /\ editor.content.cursor > 0

\* C2: an EditorStateChanged event carrying a mutation leaves the dirty flag true,
\* and the flag goes from true to false only when FileOpened(Ok) or FileSaved(Ok)
\* is processed.
C2_DirtyUntilLoadOrSave ==
    [][/\ MutationStep => editor'.is_dirty
       /\ (editor.is_dirty /\ ~editor'.is_dirty) => (FileOpenedOkStep \/ FileSavedOkStep)]_vars

\* Reached: a mutation of a document that was loaded or saved before, the error of
\* a failed result processed after it left the flag true.
C2_Witness ==
    /\ last.type \in {"FileOpened", "FileSaved"} /\ ~last.ok
    /\ editor.is_dirty
    /\ synced # None
    /\ Len(Text) > Len(synced[1])

\* C3: FileSaved(Err(e)), e being DialogClosed of a canceled save dialog or IOFailed
\* of a failed write, leaves path, dirty flag and document unchanged and sets the
\* error slot to e.
C3_FailedSaveKeepsState ==
    [][\A t \in BagToSet(tasks) :
          /\ DialogClosedSave(t) =>
                (DocumentUntouched /\ editor'.error = Some(DialogClosed))
          /\ \A k \in ErrorKinds :
                WriteFailed(t, k) => (DocumentUntouched /\ editor'.error = Some(IOFailed(k)))]_vars

\* Reached: the save dialog of a dirty document without a path was canceled.
C3_Witness ==
    /\ last.type = "FileSaved" /\ last.err = Some(DialogClosed)
    /\ editor.path = None
    /\ editor.is_dirty
    /\ editor.error = Some(DialogClosed)

\* C4: FileOpened(Err(e)), e being IOFailed of a failed read or DialogClosed of a
\* canceled open dialog, leaves document, path and dirty flag unchanged and sets the
\* error slot to e.
C4_FailedLoadKeepsState ==
    [][\A t \in BagToSet(tasks) :
          /\ DialogClosedOpen(t) =>
                (DocumentUntouched /\ editor'.error = Some(DialogClosed))
          /\ \A k \in ErrorKinds :
                ReadFailed(t, k) => (DocumentUntouched /\ editor'.error = Some(IOFailed(k)))]_vars

\* Reached: a read failed with not-found while the document held text.
C4_Witness ==
    /\ last.type = "FileOpened" /\ last.err = Some(IOFailed("NotFound"))
    /\ Text # <<>>
    /\ editor.error = Some(IOFailed("NotFound"))

\* C5 as stated: FileSaved(Ok(p)) leaves path = Some(p) and dirty = false, and the
\* flag goes from false to true only by a mutation action.
C5_CleanUntilMutation ==
    [][/\ \A t \in BagToSet(tasks) :
             WriteOk(t) => (editor'.path = t.path /\ ~editor'.is_dirty)
       /\ (~editor.is_dirty /\ editor'.is_dirty) => MutationStep]_vars

\* C5 as amended: FileSaved(Ok(p)) leaves path = Some(p) and dirty = false, and the
\* flag goes from false to true only by a mutation action or by New.
C5_CleanUntilMutationOrNew ==
    [][/\ \A t \in BagToSet(tasks) :
             WriteOk(t) => (editor'.path = t.path /\ ~editor'.is_dirty)
       /\ (~editor.is_dirty /\ editor'.is_dirty) => (MutationStep \/ OnNew)]_vars

\* Reached: a save succeeded and navigation and theme switches since left the
\* document clean at the saved path.
C5_Witness ==
    /\ last.type = "FileSaved" /\ last.ok
    /\ ~editor.is_dirty
    /\ editor.path = Some("picked")
    /\ synced = Some(<<"a">>)

StartupLoadOnly == tasks = SetToBag({load_file(default_file)})
StartupLoadFailed == last.type = "init" /\ \E t \in BagToSet(tasks), k \in ErrorKinds : ReadFailed(t, k)

\* C6 as stated: Editor::new issues exactly one load, of the default path; when it
\* fails (no other message processed before), the state is a clean empty document
\* with path = None and the error in the error slot.
C6_StartupFailureClean ==
    /\ [](last.type = "init" => StartupLoadOnly)
    /\ [][StartupLoadFailed =>
            /\ ~editor'.is_dirty
            /\ editor'.content = ContentNew
            /\ editor'.path = None
            /\ editor'.error = last'.err /\ last'.err # None]_vars

\* C6 as amended: the same, the document being dirty (dirty = true).
C6_StartupFailureDirty ==
    /\ [](last.type = "init" => StartupLoadOnly)
    /\ [][StartupLoadFailed =>
            /\ editor'.is_dirty
            /\ editor'.content = ContentNew
            /\ editor'.path = None
            /\ editor'.error = last'.err /\ last'.err # None]_vars

\* Reached: the startup load failed before any other message.
C6_Witness ==
    /\ last.type = "FileOpened" /\ last.first /\ ~last.ok
    /\ editor.error = Some(IOFailed("NotFound"))
    /\ tasks = EmptyBag

\* C7: FileSaved(Ok) of a save issued before the document was replaced (by New or
\* FileOpened(Ok)) is discarded: path and dirty flag keep their values.
C7_StaleSaveDiscarded ==
    [][\A t \in BagToSet(tasks) :
          (WriteOk(t) /\ t.stale) =>
             (editor'.path = editor.path /\ editor'.is_dirty = editor.is_dirty)]_vars

\* C8: a clean document has no unsaved mutation: its text is the content of the
\* last successful load or the snapshot of the last successful save.
C8_CleanMeansSaved == ~editor.is_dirty => synced = Some(Text)

\* C9: at most one load or save is in flight.
C9_AtMostOneInFlight == BagCardinality(tasks) <= 1

\* C10: when the error slot holds an error, FileOpened(Ok) and FileSaved(Ok) leave
\* the error slot empty.
C10_SuccessClearsError ==
    [][(editor.error # None /\ (FileOpenedOkStep \/ FileSavedOkStep)) =>
            editor'.error = None]_vars

\* C11: every EditorStateChanged event, mutation or navigation, leaves the error
\* slot empty and leaves path and theme unchanged.
C11_EditClearsError ==
    [][(NavigationStep \/ MutationStep) =>
          /\ editor'.error = None
          /\ editor'.path = editor.path
          /\ editor'.theme = editor.theme]_vars

\* Reached: every load so far failed, so the error slot was set, and an
\* EditorStateChanged event processed since has emptied it.
C11_Witness ==
    /\ last.type = "EditorStateChanged"
    /\ tasks = EmptyBag /\ synced = None
    /\ editor.error = None

\* C12: from any state New yields the empty document with path = None and
\* dirty = true, issues no task and leaves the theme unchanged.
C12_NewResetsDocument ==
    [][OnNew =>
          /\ editor'.content = ContentNew
          /\ editor'.path = None
          /\ editor'.is_dirty
          /\ editor'.theme = editor.theme
          /\ New(editor).command = None
          /\ BagCardinality(tasks') = BagCardinality(tasks)]_vars

\* Reached: New on a document that had been loaded or saved, under the light theme,
\* with a task in flight.
C12_Witness ==
    /\ last.type = "New"
    /\ synced # None
    /\ editor.theme = InspiredGitHub
    /\ editor.path = None /\ editor.is_dirty /\ Text = <<>>
    /\ tasks # EmptyBag

\* C13: from any state FileOpened(Ok(p, c)) sets the document to the loaded content
\* c, path = Some(p) and dirty = false.
C13_LoadReplacesDocument ==
    [][\A t \in BagToSet(tasks), c \in FileTexts :
          ReadOk(t, c) =>
             /\ editor'.content = ContentWithText(c)
             /\ ContentText(editor'.content) = c
             /\ t.path # None /\ editor'.path = t.path
             /\ ~editor'.is_dirty]_vars

\* Reached: a file picked in the dialog was loaded over a document, other messages
\* having been processed before its result.
C13_Witness ==
    /\ last.type = "FileOpened" /\ last.ok /\ ~last.first
    /\ Text = <<"a">>
    /\ editor.path = Some("picked")
    /\ ~editor.is_dirty

\* C14: FileOpened(Err(DialogClosed)) and FileSaved(Err(DialogClosed)) leave
\* document, path, dirty flag and the status text of the view as they were.
C14_DialogClosedSilent ==
    [][\A t \in BagToSet(tasks) :
          (DialogClosedOpen(t) \/ DialogClosedSave(t)) =>
             (DocumentUntouched /\ status(editor') = status(editor))]_vars

\* C15: SwitchTheme flips the theme between the dark and the light variant, a second
\* switch restoring the first theme; it leaves document, path, dirty flag and error
\* slot unchanged and issues no task.
C15_SwitchThemeFlips ==
    [][OnSwitchTheme =>
          /\ editor'.theme \in {SolarizedDark, InspiredGitHub}
          /\ is_dark(editor'.theme) # is_dark(editor.theme)
          /\ SwitchTheme(editor').state.theme = editor.theme
          /\ DocumentUntouched
          /\ editor'.error = editor.error
          /\ SwitchTheme(editor).command = None
          /\ tasks' = tasks]_vars

\* Reached: a switch back to the dark theme, on a clean document with an error shown.
C15_Witness ==
    /\ last.type = "SwitchTheme"
    /\ editor.theme = SolarizedDark
    /\ ~editor.is_dirty
    /\ editor.error # None

SaveTasks == {t \in BagToSet(tasks) : t.fn = "save_file"}
\* A future resolved in this step and update processed its FileSaved message.
FileSavedStep ==
    /\ BagCardinality(tasks') = BagCardinality(tasks) - 1
    /\ last'.type = "FileSaved"

\* C16: save_file prompts, then writes. Without a path it waits on the save dialog
\* first, and a canceled dialog gives Err(DialogClosed) with the write never
\* reached; with a path it opens no dialog. Ok(q) comes only from a write to q that
\* succeeded, q being the path given or the one the dialog returned, and a failed
\* write gives Err(IOFailed).
C16_PromptThenWrite ==
    [][/\ OnSave =>
             LET u == Save(editor).command[1]
             IN /\ tasks' = tasks (+) SetToBag({u})
                /\ u.pc = IF editor.path = None THEN "dialog" ELSE "write"
                /\ u.path = editor.path
       /\ \A t \in SaveTasks :
             /\ \A p \in Paths :
                   DialogPicked(t, p) =>
                      /\ t.path = None
                      /\ BagIn([t EXCEPT !.pc = "write", !.path = Some(p)], tasks')
             /\ DialogClosedSave(t) => (t.path = None /\ last'.err = Some(DialogClosed))
             /\ WriteOk(t) => (t.path # None /\ last'.ok /\ editor'.path = t.path)
             /\ \A k \in ErrorKinds :
                   WriteFailed(t, k) => last'.err = Some(IOFailed(k))
       /\ FileSavedStep =>
             /\ last'.ok => FileSavedOkStep
             /\ last'.err = Some(DialogClosed) => \E t \in SaveTasks : DialogClosedSave(t)
             /\ (last'.err # None /\ last'.err # Some(DialogClosed)) =>
                   \E t \in SaveTasks, k \in ErrorKinds : WriteFailed(t, k)]_vars

\* Reached: a save issued without a path has the path its dialog returned and is at
\* its write, the document not replaced meanwhile.
C16_Witness ==
    \E t \in SaveTasks :
        /\ t.pc = "write" /\ t.path = Some("picked") /\ ~t.stale
        /\ editor.path = None

\* C17: Open and Save change no field of the Editor and issue exactly one task; a
\* task in flight changes nothing until its result is processed, and of the results
\* only FileOpened(Ok) replaces the document.
C17_PendingTaskInvisible ==
    [][/\ (OnOpen \/ OnSave) =>
             /\ editor' = editor
             /\ BagCardinality(tasks') = BagCardinality(tasks) + 1
       /\ \A t \in BagToSet(tasks), p \in Paths : DialogPicked(t, p) => editor' = editor
       /\ (BagCardinality(tasks') < BagCardinality(tasks)
              /\ editor'.content # editor.content) => FileOpenedOkStep]_vars

\* Reached: Save was pressed on an edited document and its task is in flight.
C17_Witness ==
    /\ last.type = "Save"
    /\ SaveTasks # {}
    /\ editor.is_dirty
    /\ Text = <<"a">>

\* C18: a save writes the text and uses the path the document had when Save was
\* processed: the future takes both then, no message processed while it is in flight
\* changes them (the dialog alone supplies a missing path), and a successful write
\* is of that text to that path.
C18_SaveUsesSnapshot ==
    [][/\ OnSave =>
             \E u \in BagToSet(tasks') :
                /\ tasks' = tasks (+) SetToBag({u})
                /\ u.fn = "save_file"
                /\ u.text = Text
                /\ u.path = editor.path
       /\ \A t \in SaveTasks :
             \/ BagIn(t, tasks')
             \/ BagIn(MarkStale(t), tasks')
             \/ \E p \in Paths :
                   /\ DialogPicked(t, p)
                   /\ t.path = None
                   /\ BagIn([t EXCEPT !.pc = "write", !.path = Some(p)], tasks')
             \/ DialogClosedSave(t)
             \/ \E k \in ErrorKinds : WriteFailed(t, k)
             \/ WriteOk(t) /\ synced' = Some(t.text) /\ editor'.path = t.path]_vars

\* Reached: a save of a document at the default path is at its write while the
\* editor already shows another text under another path.
C18_Witness ==
    \E t \in SaveTasks :
        /\ t.pc = "write" /\ t.path = Some(default_file)
        /\ t.text # Text
        /\ editor.path # t.path

\* C19: dialogs and disk operations completing, every task issued (the startup load,
\* a pick-and-load, a save) delivers its result to update: a FileOpened message for
\* a load, a FileSaved message for a save, once, the future being gone with it.
C19_OneResultPerTask ==
    /\ (Watched # {}) ~> (Watched = {})
    /\ [][\A t \in Watched :
             \/ \E u \in BagToSet(tasks') : u.watched /\ u.fn = t.fn
             \/ /\ BagCardinality(tasks') = BagCardinality(tasks) - 1
                /\ last'.watched
                /\ last'.type = IF t.fn = "save_file" THEN "FileSaved" ELSE "FileOpened"]_vars

\* Reached: the future followed was a save, its FileSaved(Ok) has been processed and
\* no future is left in flight.
C19_Witness ==
    /\ last.watched /\ last.type = "FileSaved" /\ last.ok
    /\ tasks = EmptyBag

\* C20: in every reachable state a clean document has a path.  The dirty flag goes
\* from true to false only in a FileOpened(Ok) or FileSaved(Ok) step, which sets the
\* path in the same step, and the path goes from Some to None only in a New step,
\* which sets the dirty flag.
C20_CleanHasPath ==
    /\ [](~editor.is_dirty => editor.path # None)
    /\ [][/\ editor.is_dirty /\ ~editor'.is_dirty =>
                /\ FileOpenedOkStep \/ FileSavedOkStep
                /\ editor'.path # None
          /\ editor.path # None /\ editor'.path = None =>
                /\ OnNew
                /\ editor'.is_dirty]_vars

\* Reached: New had dropped the path while a save was in flight, and that save's
\* FileSaved(Ok) then made the document clean and gave it the path written to.
C20_Witness ==
    /\ last.type = "FileSaved" /\ last.ok /\ last.stale
    /\ ~editor.is_dirty
    /\ editor.path = Some("picked")

====
